---- MODULE Spec2Model ----
(***************************************************************************)
(* A model of app2.py, the single-script Streamlit page of the Legal       *)
(* Chatbot Assistant: template filling, document summarisation, the chat   *)
(* stream, and the two CSV-backed forms.                                   *)
(*                                                                         *)
(* Text is modelled as a sequence of one-character strings, so that        *)
(* concatenation, substring search, str.replace and the regular expression *)
(* of extract_placeholders are computed character by character.            *)
(*                                                                         *)
(* Three specifications share the module:                                  *)
(*   SpecTemplate  the pure functions extract_placeholders, read_docx and  *)
(*                 fill_docx_template applied to bounded inputs;           *)
(*   Spec          one UI session: repeated top-to-bottom passes of the    *)
(*                 script, one pressed button per pass;                    *)
(*   SpecRace      two sessions calling save_feedback_to_csv on the same   *)
(*                 file, the existence test and the write being two steps. *)
(***************************************************************************)
EXTENDS Naturals, Sequences, FiniteSets, TLC

VARIABLES
    \* ---- SpecTemplate
    tpl_phase,          \* "input" | "scanned" | "filled" | "refilled"
    tpl_segs,           \* how the template was authored: literal pieces, markers, paragraph breaks
    tpl_doc,            \* the template: a sequence of paragraph texts
    tpl_user_inputs,    \* the field-value map, in dict insertion order
    tpl_placeholders,   \* extract_placeholders(read_docx(tpl_doc))
    tpl_filled,         \* paragraphs after fill_docx_template
    tpl_refilled,       \* paragraphs after a second fill_docx_template
    \* ---- Spec (one UI session)
    pc,                 \* position of the running pass in the script
    pressed,            \* the button whose press caused this pass ("none": a widget change)
    chat_history,       \* st.session_state.chat_history
    questionnaire_file, \* questionnaire_responses.csv
    feedback_file,      \* feedback_responses.csv
    q_calls,            \* history: the records passed to save_questionnaire_to_csv, in call order
    f_calls,            \* history: the records passed to save_feedback_to_csv, in call order
    filler,             \* the template filler section's variables in this pass
    summ,               \* the summarizer section's variables in this pass
    chat,               \* the chat section's variables in this pass
    forms,              \* the two form sections' variables in this pass
    \* ---- SpecRace
    race_file,          \* feedback_responses.csv shared by the sessions
    sess,               \* per session: where it is in save_feedback_to_csv
    race_done           \* history: the records whose save call has returned, in completion order

tvars == <<tpl_phase, tpl_segs, tpl_doc, tpl_user_inputs, tpl_placeholders, tpl_filled, tpl_refilled>>
pvars == <<pc, pressed, chat_history, questionnaire_file, feedback_file, q_calls, f_calls,
           filler, summ, chat, forms>>
rvars == <<race_file, sess, race_done>>
vars == <<tvars, pvars, rvars>>

----------------------------------------------------------------------------
(* Bounds of the model.                                                    *)

MaxSegs == 4        \* pieces (literals, markers, paragraph breaks) of a template
MaxFormSegs == 2    \* pieces of a form uploaded in the UI session
MaxStream == 3      \* fragments the workflow delivers for one query
MaxWrites == 2      \* chat messages plus CSV rows written in one UI session
MaxSubmits == 2     \* feedback submissions per session in SpecRace

----------------------------------------------------------------------------
(* Text helpers.                                                           *)

SeqsUpTo(S, n) == UNION {[1..k -> S] : k \in 0..n}

RECURSIVE Flatten(_)
Flatten(ss) == IF ss = <<>> THEN <<>> ELSE Head(ss) \o Flatten(Tail(ss))

\* str.join
RECURSIVE Join(_, _)
Join(ss, sep) ==
    IF ss = <<>> THEN <<>>
    ELSE IF Len(ss) = 1 THEN ss[1]
    ELSE ss[1] \o sep \o Join(Tail(ss), sep)

IsPrefix(s, t) == Len(s) <= Len(t) /\ SubSeq(t, 1, Len(s)) = s

StartsAt(s, i, pat) ==
    i + Len(pat) - 1 <= Len(s) /\ SubSeq(s, i, i + Len(pat) - 1) = pat

\* Python's `pat in s`
Contains(s, pat) == \E i \in 1..(Len(s) + 1) : StartsAt(s, i, pat)

\* s.replace(old, new, 1): the leftmost occurrence only
RECURSIVE ReplaceFirstOnly(_, _, _)
ReplaceFirstOnly(s, old, new) ==
    IF Len(s) < Len(old) THEN s
    ELSE IF StartsAt(s, 1, old)
         THEN new \o SubSeq(s, Len(old) + 1, Len(s))
         ELSE <<s[1]>> \o ReplaceFirstOnly(Tail(s), old, new)

\* Python's s.replace(old, new): leftmost, non-overlapping, every occurrence
RECURSIVE StrReplace(_, _, _)
StrReplace(s, old, new) ==
    IF Len(s) < Len(old) THEN s
    ELSE IF StartsAt(s, 1, old)
         THEN new \o StrReplace(SubSeq(s, Len(old) + 1, Len(s)), old, new)
         ELSE <<s[1]>> \o StrReplace(Tail(s), old, new)

Open == <<"{", "{">>
Close == <<"}", "}">>
NL == <<"\n">>

\* f"{{{{{field}}}}}"
Marker(field) == Open \o field \o Close

----------------------------------------------------------------------------
(* extract_placeholders: re.findall(r"\{\{(.*?)\}\}", text).               *)
(* The scan is leftmost-first; `.*?` takes the fewest characters, so a     *)
(* match that opens at i closes at the first "}}" at or after i + 2; `.`   *)
(* does not match a line break, so a name never spans one; the scan        *)
(* resumes after the match, or one character on when none opens at i.      *)

FirstClose(s, i) ==
    LET js == {j \in (i + 2)..Len(s) : StartsAt(s, j, Close)}
    IN  IF js = {} THEN 0 ELSE CHOOSE j \in js : \A k \in js : j <= k

MatchEnd(s, i) ==
    LET j == FirstClose(s, i)
    IN  IF StartsAt(s, i, Open) /\ j > 0 /\ \A k \in (i + 2)..(j - 1) : s[k] # "\n"
        THEN j ELSE 0

\* a greedy `.*` would close a match at the last "}}" of the line
LastClose(s, i) ==
    LET js == {j \in (i + 2)..Len(s) :
                  /\ StartsAt(s, j, Close)
                  /\ \A k \in (i + 2)..(j - 1) : s[k] # "\n"}
    IN  IF js = {} THEN 0 ELSE CHOOSE j \in js : \A k \in js : j >= k

MatchEndGreedy(s, i) ==
    IF StartsAt(s, i, Open) THEN LastClose(s, i) ELSE 0

RECURSIVE FindAllFrom(_, _, _)
FindAllFrom(s, i, greedy) ==
    IF i > Len(s) THEN <<>>
    ELSE LET j == IF greedy THEN MatchEndGreedy(s, i) ELSE MatchEnd(s, i)
         IN  IF j > 0
             THEN <<SubSeq(s, i + 2, j - 1)>> \o FindAllFrom(s, j + 2, greedy)
             ELSE FindAllFrom(s, i + 1, greedy)

extract_placeholders_greedy(text) == FindAllFrom(text, 1, TRUE)

extract_placeholders(text) == FindAllFrom(text, 1, FALSE)

\* read_docx: "\n".join([p.text for p in doc.paragraphs])
read_docx(doc) == Join(doc, NL)

----------------------------------------------------------------------------
(* fill_docx_template: for each paragraph, for each (field, value) of the  *)
(* map in insertion order, replace the marker when the text contains it.   *)
(* A document is its sequence of paragraph texts; saving and re-reading it *)
(* keeps them.                                                             *)

\* the inner loop with only the first occurrence of a marker replaced
RECURSIVE FillParagraphFirstOnly(_, _)
FillParagraphFirstOnly(text, user_inputs) ==
    IF user_inputs = <<>> THEN text
    ELSE LET field == Head(user_inputs)[1]
             value == Head(user_inputs)[2]
         IN  FillParagraphFirstOnly(
                 IF Contains(text, Marker(field))
                 THEN ReplaceFirstOnly(text, Marker(field), value)
                 ELSE text,
                 Tail(user_inputs))

\* for field, value in user_inputs.items(): if marker in text: replace
RECURSIVE FillParagraph(_, _)
FillParagraph(text, user_inputs) ==
    IF user_inputs = <<>> THEN text
    ELSE LET field == Head(user_inputs)[1]
             value == Head(user_inputs)[2]
         IN  FillParagraph(
                 IF Contains(text, Marker(field))
                 THEN StrReplace(text, Marker(field), value)
                 ELSE text,
                 Tail(user_inputs))

fill_docx_template(doc, user_inputs) ==
    [i \in 1..Len(doc) |-> FillParagraph(doc[i], user_inputs)]

MapFields(user_inputs) == {user_inputs[i][1] : i \in 1..Len(user_inputs)}

----------------------------------------------------------------------------
(* Inputs of SpecTemplate.  A template is authored as a sequence of        *)
(* pieces: a literal character (a letter or a stray brace), a marker       *)
(* {{name}}, or a paragraph break.                                         *)

Names == {<<"a">>, <<"b">>}

Lit(c) == [k |-> "lit", s |-> <<c>>]
Mark(n) == [k |-> "mark", s |-> n]
Break == [k |-> "break", s |-> <<>>]

Pieces == {Lit("a"), Lit("{"), Lit("}"), Break} \cup {Mark(n) : n \in Names}

PieceText(p) == IF p.k = "mark" THEN Marker(p.s) ELSE p.s

RECURSIVE SplitDoc(_, _)
SplitDoc(segs, cur) ==
    IF segs = <<>> THEN <<cur>>
    ELSE IF Head(segs).k = "break"
         THEN <<cur>> \o SplitDoc(Tail(segs), <<>>)
         ELSE SplitDoc(Tail(segs), cur \o PieceText(Head(segs)))

DocOf(segs) == SplitDoc(segs, <<>>)

\* non-empty values: plain text, and text that itself holds a marker
Values == {<<"b">>, Marker(<<"a">>), Marker(<<"b">>)}

UserInputMaps ==
    {m \in SeqsUpTo(Names \X Values, Cardinality(Names)) :
        \A i, j \in 1..Len(m) : m[i][1] = m[j][1] => i = j}

----------------------------------------------------------------------------
(* SpecTemplate: the template functions applied to bounded inputs.         *)

TemplateIdle ==
    /\ tpl_phase = "off"
    /\ tpl_segs = <<>>
    /\ tpl_doc = <<>>
    /\ tpl_user_inputs = <<>>
    /\ tpl_placeholders = <<>>
    /\ tpl_filled = <<>>
    /\ tpl_refilled = <<>>

TemplateInit ==
    /\ tpl_phase = "input"
    /\ tpl_segs \in SeqsUpTo(Pieces, MaxSegs)
    /\ tpl_doc = DocOf(tpl_segs)
    /\ tpl_user_inputs \in UserInputMaps
    /\ tpl_placeholders = <<>>
    /\ tpl_filled = <<>>
    /\ tpl_refilled = <<>>

\* placeholders = extract_placeholders(read_docx(uploaded_form))
Scan ==
    /\ tpl_phase = "input"
    /\ tpl_placeholders' = extract_placeholders(read_docx(tpl_doc))
    /\ tpl_phase' = "scanned"
    /\ UNCHANGED <<tpl_segs, tpl_doc, tpl_user_inputs, tpl_filled, tpl_refilled>>
    /\ UNCHANGED <<pvars, rvars>>

Fill ==
    /\ tpl_phase = "input"
    /\ tpl_filled' = fill_docx_template(tpl_doc, tpl_user_inputs)
    /\ tpl_phase' = "filled"
    /\ UNCHANGED <<tpl_segs, tpl_doc, tpl_user_inputs, tpl_placeholders, tpl_refilled>>
    /\ UNCHANGED <<pvars, rvars>>

FillAgain ==
    /\ tpl_phase = "filled"
    /\ tpl_refilled' = fill_docx_template(tpl_filled, tpl_user_inputs)
    /\ tpl_phase' = "refilled"
    /\ UNCHANGED <<tpl_segs, tpl_doc, tpl_user_inputs, tpl_placeholders, tpl_filled>>
    /\ UNCHANGED <<pvars, rvars>>

----------------------------------------------------------------------------
(* Spec: one UI session.  Every interaction reruns the script from top to  *)
(* bottom (a pass); st.button returns True for at most one button, the one *)
(* whose press caused the pass.  Only st.session_state.chat_history and    *)
(* the two CSV files outlive a pass.  A section's variables are not read   *)
(* after the section; the next section resets them.                        *)

Buttons == {"none", "generate", "summarize", "ask", "submit_questionnaire", "submit_feedback"}

\* ---- Document Filling Assistance (lines 76-101)

NoForm == [present |-> FALSE, doc |-> <<>>]
FormPieces == {Lit("a")} \cup {Mark(n) : n \in Names}
PageForms == {DocOf(s) : s \in SeqsUpTo(FormPieces, MaxFormSegs)}
FormUploads == {NoForm} \cup {[present |-> TRUE, doc |-> d] : d \in PageForms}
\* what st.text_input returns for the widget labelled with a placeholder
FieldTexts == {<<>>, <<"v">>}

HasDuplicates(s) == \E i, j \in 1..Len(s) : i # j /\ s[i] = s[j]

\* user_inputs[placeholder] = st.text_input(f"{placeholder}:"), for each
\* placeholder: a dict keeps a key's first position and its last value
RECURSIVE BuildInputs(_, _, _)
BuildInputs(placeholders, widgets, acc) ==
    IF placeholders = <<>> THEN acc
    ELSE LET p == Head(placeholders)
             v == widgets[p]
             at == {i \in 1..Len(acc) : acc[i][1] = p}
         IN  BuildInputs(Tail(placeholders), widgets,
                 IF at = {} THEN Append(acc, <<p, v>>)
                 ELSE [i \in 1..Len(acc) |-> IF i \in at THEN <<p, v>> ELSE acc[i]])

\* any(user_inputs.values())
AnyFilled(user_inputs) == \E i \in 1..Len(user_inputs) : user_inputs[i][2] # <<>>

\* all(user_inputs.values())
AllFilled(user_inputs) == \A i \in 1..Len(user_inputs) : user_inputs[i][2] # <<>>

FillerOff ==
    [uploaded_form |-> NoForm, placeholders |-> <<>>, widgets |-> [n \in Names |-> <<>>],
     user_inputs |-> <<>>, generate |-> FALSE, out |-> "off", filled_document |-> <<>>]

\* Streamlit derives a widget's identity from its type and label: a second
\* text_input with the label of an earlier one is either refused (the pass
\* ends with DuplicateWidgetID) or is the same widget, with the same value.
FillerHandler(up, widgets, generate_pressed, refuse_duplicates) ==
    IF ~up.present THEN [FillerOff EXCEPT !.out = "no_upload"]
    ELSE LET form_text == read_docx(up.doc)
             placeholders == extract_placeholders(form_text)
             user_inputs == BuildInputs(placeholders, widgets, <<>>)
             base == [FillerOff EXCEPT !.uploaded_form = up, !.placeholders = placeholders]
         IN  IF placeholders = <<>> THEN [base EXCEPT !.out = "no_placeholders_warning"]
             ELSE IF HasDuplicates(placeholders) /\ refuse_duplicates
                  THEN [base EXCEPT !.out = "duplicate_widget"]
             ELSE IF ~generate_pressed
                  THEN [base EXCEPT !.widgets = widgets, !.user_inputs = user_inputs,
                                    !.out = "fields"]
             ELSE IF AllFilled(user_inputs)
                  THEN [base EXCEPT !.widgets = widgets, !.user_inputs = user_inputs,
                                    !.generate = TRUE, !.out = "download",
                                    !.filled_document = fill_docx_template(up.doc, user_inputs)]
                  ELSE [base EXCEPT !.widgets = widgets, !.user_inputs = user_inputs,
                                    !.generate = TRUE, !.out = "fill_all_fields_warning"]

\* ---- Summarization (lines 105-144)

PDF == "application/pdf"
DOCX == "application/vnd.openxmlformats-officedocument.wordprocessingml.document"
TXT == "text/plain"
OCTET == "application/octet-stream"
FileTypes == {PDF, DOCX, TXT, OCTET}
\* the pages (PDF), paragraphs (DOCX) or lines (plain text) of a file
FileUnits == {<<>>, << <<>> >>, << <<"t">> >>, << <<"t">>, <<"u">> >>}
NoFile == [present |-> FALSE, type |-> OCTET, units |-> <<>>]
FileUploads == {NoFile} \cup {[present |-> TRUE, type |-> t, units |-> u] : t \in FileTypes, u \in FileUnits}

None == [none |-> TRUE, text |-> <<>>]
Text(t) == [none |-> FALSE, text |-> t]

extract_text_from_file(file) ==
    IF file.type = PDF THEN Text(Flatten(file.units))
    ELSE IF file.type = DOCX THEN Text(Join(file.units, NL))
    ELSE IF file.type = TXT THEN Text(Join(file.units, NL))
    ELSE None

\* `if document_text:`: None and "" are both false
Truthy(document_text) == ~document_text.none /\ document_text.text # <<>>

\* summarizer(...) outside a try block: the exception leaves the script
summarize_uncaught(raises) ==
    [out |-> IF raises THEN "off" ELSE "summary", propagates |-> raises]

\* try: summarizer(...) / except Exception as e: st.error(...)
summarize_try(raises) ==
    [out |-> IF raises THEN "summarization_error" ELSE "summary", propagates |-> FALSE]

SummOff == [uploaded_file |-> NoFile, document_text |-> None, raised |-> FALSE, out |-> "off"]

\* what the section shows for an extraction result, before any button
SummarizerOutcome(document_text) ==
    IF Truthy(document_text) THEN "extracted" ELSE "unable_to_extract_error"

\* ---- Chat (lines 146-192)

Queries == {<<>>, <<" ">>, <<"a">>, <<" ", "b">>}
Contents == {<<>>, <<"a">>, <<"b", "c">>}
\* assistant-tagged fragments (an empty one too) and one of another role
Fragments == [role : {"ai"}, content : Contents] \cup [role : {"tool"}, content : {<<"x">>}]

IsSpace(c) == c \in {" ", "\t", "\n"}

RECURSIVE LStrip(_)
LStrip(s) == IF s # <<>> /\ IsSpace(Head(s)) THEN LStrip(Tail(s)) ELSE s

RECURSIVE RStrip(_)
RStrip(s) == IF s # <<>> /\ IsSpace(s[Len(s)]) THEN RStrip(SubSeq(s, 1, Len(s) - 1)) ELSE s

\* str.strip()
Strip(s) == RStrip(LStrip(s))

HumanMessage(content) == [role |-> "human", content |-> content]

\* `if user_input:` in place of `if user_input.strip():`
AskAccepts_nostrip(user_input) == user_input # <<>>

\* `if user_input.strip():`
AskAccepts(user_input) == Strip(user_input) # <<>>

ChatOff ==
    [user_input |-> <<>>, delivered |-> <<>>, accumulated_response |-> <<>>,
     displays |-> <<>>, out |-> "off"]

\* one iteration of the async for loop, every fragment accumulated
OnChunk_any_role(c, chunk) ==
    LET acc == c.accumulated_response \o chunk.content
    IN  [c EXCEPT !.delivered = Append(@, chunk),
                  !.accumulated_response = acc,
                  !.displays = Append(@, acc)]

\* one iteration of the async for loop; chunk_counter is Len(displays)
OnChunk(c, chunk) ==
    IF chunk.role = "ai"
    THEN LET acc == c.accumulated_response \o chunk.content
         IN  [c EXCEPT !.delivered = Append(@, chunk),
                       !.accumulated_response = acc,
                       !.displays = Append(@, acc)]
    ELSE [c EXCEPT !.delivered = Append(@, chunk)]

\* ---- The CSV files (lines 206-225) and the forms (lines 231-263)

Absent == [exists |-> FALSE, rows |-> <<>>]

Keys(data) == [i \in 1..Len(data) |-> data[i][1]]
Vals(data) == [i \in 1..Len(data) |-> data[i][2]]

\* pd.DataFrame([data]).to_csv(path, mode=mode, header=header, index=False)
to_csv(file, data, mode, header) ==
    LET new == (IF header THEN <<Keys(data)>> ELSE <<>>) \o <<Vals(data)>>
    IN  [exists |-> TRUE, rows |-> IF mode = "a" THEN file.rows \o new ELSE new]

\* the branch taken for a given result of os.path.exists
save_branch(file, data, exists) ==
    IF ~exists THEN to_csv(file, data, "w", TRUE)
    ELSE to_csv(file, data, "a", FALSE)

\* to_csv in append mode with the header left on
save_with_header(file, data) == to_csv(file, data, "a", TRUE)

save_feedback_to_csv(file, data) == save_branch(file, data, file.exists)

save_questionnaire_to_csv(file, data) == save_branch(file, data, file.exists)

QuestionnaireInputs ==
    {<< <<"Name", n>>, <<"Contact", c>>, <<"Issue Type", t>>,
        <<"Urgency", "Immediate">>, <<"Details", d>> >> :
        n \in {"", "Ann"}, c \in {"", "ann@x"}, t \in {"Family Law", "Other"}, d \in {"", "text"}}

FeedbackInputs ==
    {<< <<"User Experience", e>>, <<"Ease of Use", "Yes">>, <<"Accuracy", "Yes">>,
        <<"Comments", c>> >> : e \in {"Excellent", "Poor"}, c \in {"", "fine"}}

AllAnswered(data) == \A i \in 1..Len(data) : data[i][2] # ""

FormsOff == [questionnaire_responses |-> <<>>, feedback |-> <<>>, q_out |-> "off", f_out |-> "off"]

----------------------------------------------------------------------------
(* The passes of the UI session.                                           *)

Persistent == <<chat_history, questionnaire_file, feedback_file, q_calls, f_calls>>

Written == Len(chat_history) + Len(q_calls) + Len(f_calls)

PageOff ==
    /\ pressed = "none"
    /\ chat_history = <<>>
    /\ questionnaire_file = Absent
    /\ feedback_file = Absent
    /\ q_calls = <<>>
    /\ f_calls = <<>>
    /\ filler = FillerOff
    /\ summ = SummOff
    /\ chat = ChatOff
    /\ forms = FormsOff

PageIdle == pc = "off" /\ PageOff

\* if "chat_history" not in st.session_state: st.session_state.chat_history = []
PageInit == pc = "ready" /\ PageOff

\* the user changes a widget or presses a button: the script reruns
Interact ==
    /\ pc \in {"ready", "done", "aborted"}
    /\ \E b \in Buttons :
        /\ b \in {"ask", "submit_questionnaire", "submit_feedback"} => Written < MaxWrites
        /\ pressed' = b
    /\ pc' = "filler"
    /\ filler' = FillerOff
    /\ summ' = SummOff
    /\ chat' = ChatOff
    /\ forms' = FormsOff
    /\ UNCHANGED Persistent
    /\ UNCHANGED <<tvars, rvars>>

FillerSection ==
    /\ pc = "filler"
    /\ \E up \in FormUploads, widgets \in [Names -> FieldTexts], refuse \in BOOLEAN :
        LET r == FillerHandler(up, widgets, pressed = "generate", refuse)
        IN  /\ filler' = r
            /\ pc' = IF r.out = "duplicate_widget" THEN "aborted" ELSE "summarizer"
    /\ UNCHANGED <<pressed, summ, chat, forms>>
    /\ UNCHANGED Persistent
    /\ UNCHANGED <<tvars, rvars>>

SummarizerSection ==
    /\ pc = "summarizer"
    /\ \E file \in FileUploads, raises \in BOOLEAN :
        LET document_text == IF file.present THEN extract_text_from_file(file) ELSE None
            called == file.present /\ Truthy(document_text) /\ pressed = "summarize"
            call == summarize_try(raises)
        IN  /\ raises => called
            /\ summ' = [uploaded_file |-> file,
                        document_text |-> document_text,
                        raised |-> raises,
                        out |-> IF ~file.present THEN "no_upload"
                                ELSE IF called THEN call.out
                                ELSE SummarizerOutcome(document_text)]
            /\ pc' = IF called /\ call.propagates THEN "aborted" ELSE "chat"
    /\ filler' = FillerOff
    /\ UNCHANGED <<pressed, chat, forms>>
    /\ UNCHANGED Persistent
    /\ UNCHANGED <<tvars, rvars>>

\* if st.button("Ask"): ... up to asyncio.run(display_response())
ChatSection ==
    /\ pc = "chat"
    /\ \E user_input \in Queries :
        IF pressed = "ask"
        THEN IF AskAccepts(user_input)
             THEN /\ chat_history' = Append(chat_history, HumanMessage(user_input))
                  /\ chat' = [ChatOff EXCEPT !.user_input = user_input, !.out = "streaming"]
                  /\ pc' = "streaming"
             ELSE /\ chat' = [ChatOff EXCEPT !.user_input = user_input, !.out = "query_warning"]
                  /\ pc' = "history"
                  /\ UNCHANGED chat_history
        ELSE /\ chat' = [ChatOff EXCEPT !.user_input = user_input, !.out = "idle"]
             /\ pc' = "history"
             /\ UNCHANGED chat_history
    /\ summ' = SummOff
    /\ UNCHANGED <<pressed, filler, forms, questionnaire_file, feedback_file, q_calls, f_calls>>
    /\ UNCHANGED <<tvars, rvars>>

\* app.astream delivers the next fragment
StreamChunk ==
    /\ pc = "streaming"
    /\ Len(chat.delivered) < MaxStream
    /\ \E chunk \in Fragments : chat' = OnChunk(chat, chunk)
    /\ UNCHANGED <<pc, pressed, filler, summ, forms>>
    /\ UNCHANGED Persistent
    /\ UNCHANGED <<tvars, rvars>>

\* the stream ends: asyncio.run returns
StreamEnd ==
    /\ pc = "streaming"
    /\ pc' = "history"
    /\ chat' = [chat EXCEPT !.out = "answered"]
    /\ UNCHANGED <<pressed, filler, summ, forms>>
    /\ UNCHANGED Persistent
    /\ UNCHANGED <<tvars, rvars>>

\* the stream raises: nothing catches it, the pass ends
StreamRaise ==
    /\ pc = "streaming"
    /\ pc' = "aborted"
    /\ chat' = [chat EXCEPT !.out = "stream_error"]
    /\ UNCHANGED <<pressed, filler, summ, forms>>
    /\ UNCHANGED Persistent
    /\ UNCHANGED <<tvars, rvars>>

\* for message in st.session_state.chat_history: st.markdown(...)
RenderHistory ==
    /\ pc = "history"
    /\ pc' = "questionnaire"
    /\ chat' = ChatOff
    /\ UNCHANGED <<pressed, filler, summ, forms>>
    /\ UNCHANGED Persistent
    /\ UNCHANGED <<tvars, rvars>>

QuestionnaireSection ==
    /\ pc = "questionnaire"
    /\ \E questionnaire_responses \in QuestionnaireInputs :
        IF pressed = "submit_questionnaire"
        THEN IF AllAnswered(questionnaire_responses)
             THEN /\ questionnaire_file' =
                         save_questionnaire_to_csv(questionnaire_file, questionnaire_responses)
                  /\ q_calls' = Append(q_calls, questionnaire_responses)
                  /\ forms' = [FormsOff EXCEPT !.questionnaire_responses = questionnaire_responses,
                                               !.q_out = "success"]
             ELSE /\ forms' = [FormsOff EXCEPT !.questionnaire_responses = questionnaire_responses,
                                               !.q_out = "fill_all_fields_warning"]
                  /\ UNCHANGED <<questionnaire_file, q_calls>>
        ELSE /\ forms' = [FormsOff EXCEPT !.questionnaire_responses = questionnaire_responses,
                                          !.q_out = "idle"]
             /\ UNCHANGED <<questionnaire_file, q_calls>>
    /\ pc' = "feedback"
    /\ UNCHANGED <<pressed, filler, summ, chat, chat_history, feedback_file, f_calls>>
    /\ UNCHANGED <<tvars, rvars>>

FeedbackSection ==
    /\ pc = "feedback"
    /\ \E feedback \in FeedbackInputs :
        IF pressed = "submit_feedback"
        THEN /\ feedback_file' = save_feedback_to_csv(feedback_file, feedback)
             /\ f_calls' = Append(f_calls, feedback)
             /\ forms' = [FormsOff EXCEPT !.feedback = feedback, !.f_out = "success"]
        ELSE /\ forms' = [FormsOff EXCEPT !.feedback = feedback, !.f_out = "idle"]
             /\ UNCHANGED <<feedback_file, f_calls>>
    /\ pc' = "done"
    /\ UNCHANGED <<pressed, filler, summ, chat, chat_history, questionnaire_file, q_calls>>
    /\ UNCHANGED <<tvars, rvars>>

----------------------------------------------------------------------------
(* SpecRace: sessions run in separate threads of one server process and    *)
(* share the working directory.  os.path.exists and the to_csv that        *)
(* follows are two steps; the write itself is taken as one step.           *)

Sessions == {"s1", "s2"}

SessionIdle == [pc |-> "idle", data |-> <<>>, exists |-> FALSE, submits |-> 0]

RaceIdle ==
    /\ race_file = Absent
    /\ sess = [s \in Sessions |-> SessionIdle]
    /\ race_done = <<>>

\* a check-and-write that cannot be interleaved
ExistsAtWrite_atomic(observed, file) == file.exists

\* the branch of save_feedback_to_csv is chosen by the earlier test
ExistsAtWrite(observed, file) == observed

\* if not os.path.exists(FEEDBACK_FILE):
RaceCheck(s) ==
    /\ sess[s].pc = "idle"
    /\ sess[s].submits < MaxSubmits
    /\ \E feedback \in FeedbackInputs :
        sess' = [sess EXCEPT ![s] = [pc |-> "checked", data |-> feedback,
                                     exists |-> race_file.exists, submits |-> @.submits + 1]]
    /\ UNCHANGED <<race_file, race_done>>
    /\ UNCHANGED <<tvars, pvars>>

\* pd.DataFrame([feedback_data]).to_csv(...)
RaceWrite(s) ==
    /\ sess[s].pc = "checked"
    /\ race_file' = save_branch(race_file, sess[s].data, ExistsAtWrite(sess[s].exists, race_file))
    /\ race_done' = Append(race_done, [data |-> sess[s].data, exists |-> sess[s].exists])
    /\ sess' = [sess EXCEPT ![s] = [@ EXCEPT !.pc = "idle"]]
    /\ UNCHANGED <<tvars, pvars>>

----------------------------------------------------------------------------------------------------------------------------------------
(* The specifications.                                                     *)

InitTemplate == TemplateInit /\ PageIdle /\ RaceIdle

NextTemplate ==
    \/ Scan
    \/ Fill
    \/ FillAgain

SpecTemplate == InitTemplate /\ [][NextTemplate]_vars

Init == TemplateIdle /\ PageInit /\ RaceIdle

Next ==
    \/ Interact
    \/ FillerSection
    \/ SummarizerSection
    \/ ChatSection
    \/ StreamChunk
    \/ StreamEnd
    \/ StreamRaise
    \/ RenderHistory
    \/ QuestionnaireSection
    \/ FeedbackSection

Spec == Init /\ [][Next]_vars

InitRace == TemplateIdle /\ PageIdle /\ RaceIdle

NextRace == \E s \in Sessions : RaceCheck(s) \/ RaceWrite(s)

SpecRace == InitRace /\ [][NextRace]_vars

----------------------------------------------------------------------------
(* The claims.                                                             *)

AiContents(delivered) ==
    LET ai == SelectSeq(delivered, LAMBDA f : f.role = "ai")
    IN  [i \in 1..Len(ai) |-> ai[i].content]

\* C1: after the k-th assistant-tagged fragment the displayed text is the
\* concatenation of the first k assistant-tagged fragments in delivery
\* order; other fragments change neither the buffer nor the display.  One
\* display per assistant fragment, each the concatenation of the assistant
\* fragments delivered so far, says both.
C1_DisplayedIsPrefixConcat ==
    LET ai == AiContents(chat.delivered)
    IN  /\ Len(chat.displays) = Len(ai)
        /\ \A k \in 1..Len(ai) : chat.displays[k] = Flatten(SubSeq(ai, 1, k))
        /\ chat.accumulated_response = Flatten(ai)

C1_Witness ==
    /\ pc = "streaming"
    /\ Len(chat.delivered) = 3
    /\ chat.delivered[1].role = "ai" /\ chat.delivered[1].content # <<>>
    /\ chat.delivered[2].role = "tool" /\ chat.delivered[2].content # <<>>
    /\ chat.delivered[3].role = "ai" /\ chat.delivered[3].content # <<>>
    /\ Len(chat.displays) = 2
    /\ chat.displays[2] = chat.delivered[1].content \o chat.delivered[3].content

FileOf(calls) ==
    IF calls = <<>> THEN Absent
    ELSE [exists |-> TRUE,
          rows |-> <<Keys(calls[1])>> \o [i \in 1..Len(calls) |-> Vals(calls[i])]]

\* C2: starting from no file, after k >= 1 sequential save calls the file
\* is one header row (the field names of the first record) followed by the
\* k value rows in call order.
C2_HeaderOnceThenRows ==
    /\ questionnaire_file = FileOf(q_calls)
    /\ feedback_file = FileOf(f_calls)

C2_Witness ==
    /\ Len(q_calls) = 2
    /\ q_calls[1] # q_calls[2]
    /\ questionnaire_file.rows = <<Keys(q_calls[1]), Vals(q_calls[1]), Vals(q_calls[2])>>

\* the names of the markers a template was written with, in document order
RECURSIVE MarkerNames(_)
MarkerNames(segs) ==
    IF segs = <<>> THEN <<>>
    ELSE (IF Head(segs).k = "mark" THEN <<Head(segs).s>> ELSE <<>>)
         \o MarkerNames(Tail(segs))

\* every brace of the template belongs to a marker
BracesOnlyInMarkers(segs) ==
    \A i \in 1..Len(segs) : segs[i].k = "lit" => segs[i].s \notin {<<"{">>, <<"}">>}

BraceFree(s) == \A i \in 1..Len(s) : s[i] \notin {"{", "}"}

MappedMarkerIn(text, user_inputs) ==
    \E f \in MapFields(user_inputs) : Contains(text, Marker(f))

AbsentNames(text, user_inputs) ==
    SelectSeq(extract_placeholders(text), LAMBDA n : n \notin MapFields(user_inputs))

NoMappedMarkerLeft ==
    \A i \in 1..Len(tpl_filled) : ~MappedMarkerIn(tpl_filled[i], tpl_user_inputs)

AbsentMarkersKept ==
    \A i \in 1..Len(tpl_filled) :
        AbsentNames(tpl_filled[i], tpl_user_inputs) = AbsentNames(tpl_doc[i], tpl_user_inputs)

UnmarkedParagraphsKept ==
    \A i \in 1..Len(tpl_filled) :
        ~MappedMarkerIn(tpl_doc[i], tpl_user_inputs) => tpl_filled[i] = tpl_doc[i]

Filled == tpl_phase \in {"filled", "refilled"}

\* C3 as stated: for every template and every map of non-empty values,
\* after fill_docx_template no paragraph holds a marker of a mapped field,
\* markers of absent fields are as they were, a paragraph without a mapped
\* marker is unchanged, and a second application changes nothing.
C3_AsStated ==
    /\ Filled => NoMappedMarkerLeft /\ AbsentMarkersKept /\ UnmarkedParagraphsKept
    /\ tpl_phase = "refilled" => tpl_refilled = tpl_filled

PlainInputs ==
    /\ BracesOnlyInMarkers(tpl_segs)
    /\ \A i \in 1..Len(tpl_user_inputs) : BraceFree(tpl_user_inputs[i][2])

\* C3 amended: a paragraph without a mapped marker is always unchanged;
\* when every brace of the template belongs to a marker {{name}} and no
\* value holds a brace, no mapped marker is left, the markers of absent
\* fields are as they were, and a second application changes nothing.
C3_FillPlain ==
    /\ Filled => UnmarkedParagraphsKept
    /\ Filled /\ PlainInputs => NoMappedMarkerLeft /\ AbsentMarkersKept
    /\ tpl_phase = "refilled" /\ PlainInputs => tpl_refilled = tpl_filled

C3_Witness ==
    /\ tpl_phase = "refilled"
    /\ PlainInputs
    /\ tpl_segs = <<Mark(<<"a">>), Mark(<<"b">>), Break, Mark(<<"a">>)>>
    /\ tpl_user_inputs = << <<(<<"a">>), (<<"b">>)>> >>
    /\ tpl_filled = << (<<"b">>) \o Marker(<<"b">>), <<"b">> >>
    /\ tpl_refilled = tpl_filled

\* C4: the summarizer section shows, for a supported file whose extracted
\* text is empty, something else than what it shows for an unsupported
\* content type.
C4_EmptyNotConflated ==
    (/\ summ.uploaded_file.present
     /\ summ.uploaded_file.type \in {PDF, DOCX, TXT}
     /\ summ.document_text = Text(<<>>))
    => summ.out # SummarizerOutcome(extract_text_from_file([NoFile EXCEPT !.present = TRUE]))

SuppliedValue(i) == filler.widgets[filler.placeholders[i]]

\* C5: Generate invokes fill_docx_template and offers the download only if
\* every detected placeholder has a non-empty supplied value; with an empty
\* one the outcome is the warning, nothing is substituted and no document
\* is offered.
C5_GenerateOnlyWhenAllFilled ==
    /\ filler.out = "download" =>
          /\ filler.generate
          /\ \A i \in 1..Len(filler.placeholders) : SuppliedValue(i) # <<>>
    /\ filler.filled_document # <<>> => filler.out = "download"
    /\ (filler.generate /\ \E i \in 1..Len(filler.placeholders) : SuppliedValue(i) = <<>>) =>
          /\ filler.out = "fill_all_fields_warning"
          /\ filler.filled_document = <<>>

C5_Witness ==
    /\ filler.generate
    /\ filler.out = "fill_all_fields_warning"
    /\ Len(filler.placeholders) = 2
    /\ SuppliedValue(1) # <<>>
    /\ SuppliedValue(2) = <<>>

\* C6: for a text whose n markers {{name}} are well formed (every brace of
\* the text belongs to a marker), extract_placeholders returns exactly the
\* n names in document order, a repeated name once per occurrence.
C6_ExtractsNamesInOrder ==
    (tpl_phase = "scanned" /\ BracesOnlyInMarkers(tpl_segs))
    => tpl_placeholders = MarkerNames(tpl_segs)

C6_Witness ==
    /\ tpl_phase = "scanned"
    /\ tpl_segs = <<Mark(<<"a">>), Mark(<<"b">>), Break, Mark(<<"a">>)>>
    /\ tpl_placeholders = << <<"a">>, <<"b">>, <<"a">> >>

ValueRows(file) == {file.rows[i] : i \in 2..Len(file.rows)}

\* C7: neither form ever writes a row in which some field value is empty.
C7_NoEmptyFieldWritten ==
    \A row \in ValueRows(questionnaire_file) \cup ValueRows(feedback_file) :
        \A i \in 1..Len(row) : row[i] # ""

IsBlank(q) == \A i \in 1..Len(q) : q[i] \in {" ", "\t", "\n"}

AskStep == pc = "chat" /\ pressed = "ask" /\ ~IsBlank(chat'.user_input)

\* C8: the chat history only grows; an Ask with a non-blank query appends
\* exactly one user message holding the query and starts the stream; a
\* blank Ask and every other step leave the history as it is and do not
\* start the stream.
C8_HistoryAppendOnly ==
    [][/\ IsPrefix(chat_history, chat_history')
       /\ AskStep => /\ chat_history' = Append(chat_history, HumanMessage(chat'.user_input))
                     /\ pc' = "streaming"
       /\ ~AskStep => /\ chat_history' = chat_history
                      /\ pc # "streaming" => pc' # "streaming"]_vars

C8_Witness ==
    /\ chat_history = <<HumanMessage(<<" ", "b">>)>>
    /\ pc = "history"
    /\ pressed = "ask"
    /\ chat.out = "query_warning"
    /\ chat.user_input = <<" ">>

\* C9: a failure of the summarization call ends in the error message, the
\* pass goes on to the chat section, and neither the chat history nor a
\* file changes.
C9_SummarizerFailureCaught ==
    [][(pc = "summarizer" /\ summ'.raised)
        => /\ summ'.out = "summarization_error"
           /\ pc' = "chat"
           /\ UNCHANGED Persistent]_vars

C9_Witness ==
    /\ pc = "chat"
    /\ summ.raised
    /\ summ.out = "summarization_error"
    /\ Len(chat_history) = 1
    /\ feedback_file.exists
    /\ ~questionnaire_file.exists

SawAbsent == {i \in 1..Len(race_done) : ~race_done[i].exists}

RaceCalls == [i \in 1..Len(race_done) |-> race_done[i].data]

\* C10: once two submissions have both found the file absent, the file is
\* not one header row followed by one row per completed submission.
C10_RaceLosesRecord ==
    Cardinality(SawAbsent) >= 2 => race_file # FileOf(RaceCalls)

C10_Witness ==
    /\ \A s \in Sessions : sess[s].pc = "idle"
    /\ Len(race_done) = 2
    /\ SawAbsent = {1, 2}
    /\ race_done[1].data # race_done[2].data
    /\ race_file.rows = <<Keys(race_done[2].data), Vals(race_done[2].data)>>

====
